---- MODULE Spec2Model ----
(***************************************************************************)
(* A model of mazeSolver.py: Maze.load_maze, the Maze queries, the A*      *)
(* search loop of a_star_search, and Maze.mark_path as main() calls them.  *)
(* Cells are <<row, col>> pairs counted from 0 as in the source; the grid  *)
(* is a sequence of rows, each a sequence of one-character strings.        *)
(***************************************************************************)
EXTENDS Integers, Sequences, FiniteSets, TLC

VARIABLES text, grid, start, end, height, width,
          frontier, came_from, g_score, count, path, pc

vars == <<text, grid, start, end, height, width,
          frontier, came_from, g_score, count, path, pc>>

\* ---------------------------------------------------------------- bounds
\* Ragged texts: at most MaxChars characters spread over at most MaxTextRows lines.
MaxChars == 4
MaxTextRows == 3
\* Rectangular one-B-one-E grids: at most MaxRows x MaxCols.
MaxRows == 3
MaxCols == 2

\* ------------------------------------------------------------ parameters
\* The params record of the maze (begin, end, wall), as in the header comment.
params == [begin |-> "B", end |-> "E", wall |-> "#"]

\* Python's None (for Maze.start / Maze.end / came_from[start]).
None == <<>>

\* The marker mark_path writes.
PathMarker == "P"

Chars == {"B", "E", "#", ".", "P"}

\* ------------------------------------------------------------- utilities
Abs(x) == IF x < 0 THEN -x ELSE x

RECURSIVE SumTo(_, _)
SumTo(f, n) == IF n = 0 THEN 0 ELSE f[n] + SumTo(f, n - 1)

RECURSIVE Reverse(_)
Reverse(s) == IF s = <<>> THEN <<>> ELSE Reverse(Tail(s)) \o <<Head(s)>>

\* The lines of a file holding the characters flat, cut into lines of lengths lens.
SplitLines(flat, lens) ==
  [k \in 1..Len(lens) |->
     [c \in 1..lens[k] |-> flat[SumTo(lens, k - 1) + c]]]

\* ---------------------------------------------------------------- inputs
\* A text file of n characters on k lines (lines may be empty or ragged).
RaggedText(t) ==
  \E n \in 0..MaxChars, k \in 0..MaxTextRows :
    \E flat \in [1..n -> Chars], lens \in [1..k -> 0..n] :
      /\ SumTo(lens, k) = n
      /\ t = SplitLines(flat, lens)

\* An R x C grid of walls and passages with B at row-major index s and E at e.
RectGrid(R, C, s, e, fill) ==
  [r \in 1..R |->
     [c \in 1..C |->
        LET i == (r - 1) * C + c
            before == (IF s < i THEN 1 ELSE 0) + (IF e < i THEN 1 ELSE 0)
        IN  IF i = s THEN params.begin
            ELSE IF i = e THEN params.end
            ELSE fill[i - before]]]

RectText(t) ==
  \E R \in 1..MaxRows, C \in 1..MaxCols :
    \E s \in 1..(R * C), e \in 1..(R * C) :
      \E fill \in [1..(R * C - 2) -> {"#", "."}] :
        /\ s # e
        /\ t = RectGrid(R, C, s, e, fill)

ScenarioGrid ==
  << <<"#", "#", "#", "#", "#">>,
     <<"#", "B", ".", ".", "#">>,
     <<"#", ".", "#", ".", "#">>,
     <<"#", ".", ".", "E", "#">>,
     <<"#", "#", "#", "#", "#">> >>

\* A grid on which the search lowers an already recorded g_score: the cell
\* below the inner wall is first reached the long way round.
RingGrid ==
  << <<".", "B", ".", "#">>,
     <<".", "#", ".", "#">>,
     <<".", ".", ".", "#">>,
     <<"#", "#", "#", "E">> >>

\* ------------------------------------------------------------- load_maze
\* ScanCell keeping the first marker seen instead of overwriting.
ScanCellKeepFirst(st, r, c, ch) ==
  IF ch = params.begin
  THEN (IF st.start = None THEN [st EXCEPT !.start = <<r, c>>] ELSE st)
  ELSE IF ch = params.end
  THEN (IF st.end = None THEN [st EXCEPT !.end = <<r, c>>] ELSE st)
  ELSE st

ScanCell(st, r, c, ch) ==
  IF ch = params.begin THEN [st EXCEPT !.start = <<r, c>>]
  ELSE IF ch = params.end THEN [st EXCEPT !.end = <<r, c>>]
  ELSE st

RECURSIVE ScanRow(_, _, _, _)
ScanRow(st, r, row, c) ==
  IF c >= Len(row) THEN st
  ELSE ScanRow(ScanCell(st, r, c, row[c + 1]), r, row, c + 1)

RECURSIVE ScanText(_, _, _)
ScanText(st, txt, r) ==
  IF r >= Len(txt) THEN st
  ELSE ScanText(ScanRow(st, r, txt[r + 1], 0), txt, r + 1)

load_maze ==
  /\ pc = "load"
  /\ LET st == ScanText([start |-> None, end |-> None], text, 0) IN
       /\ grid' = text
       /\ start' = st.start
       /\ end' = st.end
       /\ IF st.start = None \/ st.end = None
          THEN /\ pc' = "load_raised"          \* ValueError
               /\ UNCHANGED <<height, width>>
          ELSE /\ pc' = "search"
               /\ height' = Len(text)
               /\ width' = Len(text[1])
  /\ UNCHANGED <<text, frontier, came_from, g_score, count, path>>

\* ----------------------------------------------------------- Maze queries
in_bounds(pos) ==
  0 <= pos[1] /\ pos[1] < height /\ 0 <= pos[2] /\ pos[2] < width

\* self.grid[r][c] raises IndexError when row r has no column c.
IndexError(pos) == pos[2] >= Len(grid[pos[1] + 1])

passable(pos) == grid[pos[1] + 1][pos[2] + 1] # params.wall

\* Dirs with a diagonal step in place of "right".
DirsDiagonal == << <<-1, 0>>, <<1, 0>>, <<0, -1>>, <<1, 1>> >>

\* Dirs generated right, left, down, up.
DirsRightFirst == << <<0, 1>>, <<0, -1>>, <<1, 0>>, <<-1, 0>> >>

Dirs == << <<-1, 0>>, <<1, 0>>, <<0, -1>>, <<0, 1>> >>

\* heuristic overestimating the remaining cost.
heuristicOvershoot(a, b) == 3 * (Abs(a[1] - b[1]) + Abs(a[2] - b[2]))

heuristic(a, b) == Abs(a[1] - b[1]) + Abs(a[2] - b[2])

\* --------------------------------------------------------- a_star_search
Less(a, b) == a[1] < b[1] \/ (a[1] = b[1] /\ a[2] < b[2])

\* heappop taking the newest entry (largest count) whatever its f.
heappopNewest(fr) == CHOOSE e \in fr : \A o \in fr \ {e} : e[2] > o[2]

\* heapq.heappop: the least (f, count, position) entry.
heappop(fr) == CHOOSE e \in fr : \A o \in fr \ {e} : Less(e, o)

\* Improves with the comparison turned round.
ImprovesWorse(g, nbr, tentative_g) ==
  nbr \notin DOMAIN g \/ tentative_g > g[nbr]

Improves(g, nbr, tentative_g) ==
  nbr \notin DOMAIN g \/ tentative_g < g[nbr]

\* The body of the for loop for one neighbour.
Relax(s, current, nbr) ==
  LET tentative_g == s.g_score[current] + 1 IN
  IF Improves(s.g_score, nbr, tentative_g)
  THEN [s EXCEPT !.came_from = (nbr :> current) @@ s.came_from,
                 !.g_score = (nbr :> tentative_g) @@ s.g_score,
                 !.count = s.count + 1,
                 !.frontier = s.frontier \cup
                    {<<tentative_g + heuristic(nbr, end), s.count + 1, nbr>>}]
  ELSE s

\* The for loop over maze.neighbors(current), from direction i on; the
\* generator is lazy, so an IndexError in passable stops the loop after the
\* earlier neighbours were processed.
RECURSIVE neighbors(_, _, _)
neighbors(s, current, i) ==
  IF i > Len(Dirs) THEN s
  ELSE LET nbr == <<current[1] + Dirs[i][1], current[2] + Dirs[i][2]>> IN
       IF ~in_bounds(nbr) THEN neighbors(s, current, i + 1)
       ELSE IF IndexError(nbr) THEN [s EXCEPT !.raised = TRUE]
       ELSE IF ~passable(nbr) THEN neighbors(s, current, i + 1)
       ELSE neighbors(Relax(s, current, nbr), current, i + 1)

\* Backtrack stopping at the cell whose parent is None, leaving it out.
RECURSIVE BacktrackDropStart(_, _)
BacktrackDropStart(cf, current) ==
  IF cf[current] = None THEN <<>>
  ELSE <<current>> \o BacktrackDropStart(cf, cf[current])

RECURSIVE Backtrack(_, _)
Backtrack(cf, current) ==
  IF current = None THEN <<>>
  ELSE <<current>> \o Backtrack(cf, cf[current])

ReconstructPath(cf, current) == Reverse(Backtrack(cf, current))

\* Lines 107-117: the state before the first iteration.
StartSearch ==
  /\ pc = "search"
  /\ frontier' = {<<0, 0, start>>}
  /\ came_from' = (start :> None)
  /\ g_score' = (start :> 0)
  /\ count' = 0
  /\ pc' = "loop"
  /\ UNCHANGED <<text, grid, start, end, height, width, path>>

\* while frontier: is false -> return None.
Exhausted ==
  /\ pc = "loop"
  /\ frontier = {}
  /\ pc' = "no_path"
  /\ UNCHANGED <<text, grid, start, end, height, width,
                 frontier, came_from, g_score, count, path>>

\* The goal is popped: reconstruct and return the path.
PopGoal ==
  /\ pc = "loop"
  /\ frontier # {}
  /\ LET e == heappop(frontier) IN
       /\ e[3] = end
       /\ frontier' = frontier \ {e}
       /\ path' = ReconstructPath(came_from, e[3])
  /\ pc' = "found"
  /\ UNCHANGED <<text, grid, start, end, height, width,
                 came_from, g_score, count>>

\* Another cell is popped: relax its neighbours.
Expand ==
  /\ pc = "loop"
  /\ frontier # {}
  /\ LET e == heappop(frontier)
         s == neighbors([frontier |-> frontier \ {e}, came_from |-> came_from,
                         g_score |-> g_score, count |-> count,
                         raised |-> FALSE], e[3], 1)
     IN /\ e[3] # end
        /\ frontier' = s.frontier
        /\ came_from' = s.came_from
        /\ g_score' = s.g_score
        /\ count' = s.count
        /\ pc' = IF s.raised THEN "search_raised" ELSE "loop"
  /\ UNCHANGED <<text, grid, start, end, height, width, path>>

\* -------------------------------------------------------------- mark_path
\* MarkCell without the start/end exclusion.
MarkCellAlways(g, cell) ==
  [g EXCEPT ![cell[1] + 1][cell[2] + 1] = PathMarker]

MarkCell(g, cell) ==
  IF cell \notin {start, end}
  THEN [g EXCEPT ![cell[1] + 1][cell[2] + 1] = PathMarker]
  ELSE g

RECURSIVE MarkAll(_, _, _)
MarkAll(g, p, i) ==
  IF i > Len(p) THEN g ELSE MarkAll(MarkCell(g, p[i]), p, i + 1)

mark_path ==
  /\ pc = "found"
  /\ grid' = MarkAll(grid, path, 1)
  /\ pc' = "marked"
  /\ UNCHANGED <<text, start, end, height, width,
                 frontier, came_from, g_score, count, path>>

\* ------------------------------------------------------- specifications
Blank ==
  /\ grid = <<>> /\ start = None /\ end = None
  /\ height = 0 /\ width = 0
  /\ frontier = {} /\ came_from = <<>> /\ g_score = <<>>
  /\ count = 0 /\ path = <<>>

Init ==
  /\ \/ RaggedText(text)
     \/ RectText(text)
     \/ text = ScenarioGrid
     \/ text = RingGrid
  /\ Blank
  /\ pc = "load"

Next ==
  \/ load_maze
  \/ StartSearch
  \/ Exhausted
  \/ PopGoal
  \/ Expand
  \/ mark_path

Spec == Init /\ [][Next]_vars

\* ------------------------------------------ a_star_search called directly
\* Largest side of the grids handed straight to a_star_search.
MaxSide == 2

\* A Maze object whose start and end fields are arbitrary cells (possibly
\* the same cell) of a rectangular grid, handed to a_star_search.
InitSearch ==
  /\ \E R \in 1..MaxSide, C \in 1..MaxSide :
       \E s \in 1..(R * C), e \in 1..(R * C) :
         \E fill \in [1..(R * C) -> {"#", "."}] :
           /\ text = [r \in 1..R |-> [c \in 1..C |->
                        LET i == (r - 1) * C + c IN
                        IF i = s THEN params.begin
                        ELSE IF i = e THEN params.end
                        ELSE fill[i]]]
           /\ start = <<(s - 1) \div C, (s - 1) % C>>
           /\ end = <<(e - 1) \div C, (e - 1) % C>>
           /\ height = R
           /\ width = C
  /\ grid = text
  /\ frontier = {} /\ came_from = <<>> /\ g_score = <<>>
  /\ count = 0 /\ path = <<>>
  /\ pc = "search"

NextSearch ==
  \/ StartSearch
  \/ Exhausted
  \/ PopGoal
  \/ Expand
  \/ mark_path

SpecSearch == InitSearch /\ [][NextSearch]_vars

\* ------------------------------------------------ vocabulary of the claims
\* load_maze returned a Maze.
Loaded == pc \notin {"load", "load_raised"}

\* a_star_search was entered and is over (returned or raised).
SearchOver == pc \in {"no_path", "found", "marked", "search_raised"}

\* Every row is as long as row 0.
Rectangular == \A r \in 1..Len(grid) : Len(grid[r]) = width

Adjacent(p, q) == Abs(p[1] - q[1]) + Abs(p[2] - q[2]) = 1

\* The cells that exist in the text, and its character at a cell.
TextCells ==
  UNION { { <<r - 1, c - 1>> : c \in 1..Len(text[r]) } : r \in 1..Len(text) }

TextAt(p) == text[p[1] + 1][p[2] + 1]

\* Cells a route may use: in bounds, present in their row, and not a wall.
OpenCells == { p \in TextCells : in_bounds(p) /\ TextAt(p) # params.wall }

\* Reference breadth-first search: number of steps from start to end, -1 if none.
RECURSIVE BFS(_, _, _)
BFS(seen, layer, d) ==
  IF end \in layer THEN d
  ELSE IF layer = {} THEN -1
  ELSE LET nxt == { q \in OpenCells \ seen : \E p \in layer : Adjacent(p, q) }
       IN  BFS(seen \cup nxt, nxt, d + 1)

ShortestSteps == BFS({start}, {start}, 0)

NoRepeats(p) == \A i, j \in 1..Len(p) : p[i] = p[j] => i = j

\* A complete route: from start to end over open cells by unit steps.
CompletePath(p) ==
  /\ Len(p) >= 1
  /\ p[1] = start
  /\ p[Len(p)] = end
  /\ \A i \in 1..Len(p) : in_bounds(p[i]) /\ ~IndexError(p[i]) /\ passable(p[i])
  /\ \A i \in 1..(Len(p) - 1) : Adjacent(p[i], p[i + 1])

\* ------------------------------------------------------------------ C1
\* C1: on a valid (rectangular) grid, a returned path starts at maze.start,
\* ends at maze.end, has only in-bounds passable cells, and consecutive
\* cells are one cardinal unit step apart.
C1_PathWellFormed ==
  (pc = "found" /\ Rectangular) => CompletePath(path)

C1_Witness ==
  pc = "found" /\ Rectangular /\ Len(path) >= 5 /\ Len(text) <= MaxRows

\* ------------------------------------------------------------------ C2
\* C2: on a valid grid, the returned path has as many steps as the shortest
\* route found by breadth-first search, and so has the g value of the goal
\* when it is popped.
C2_ShortestPath ==
  (pc = "found" /\ Rectangular) =>
     /\ Len(path) - 1 = ShortestSteps
     /\ g_score[end] = ShortestSteps

\* A returned path that had to take a detour around walls.
C2_Witness ==
  /\ pc = "found" /\ Rectangular
  /\ Len(path) - 1 > heuristic(start, end)

\* ------------------------------------------------------------------ C3
\* C3 (as claimed): when end cannot be reached from start over passable
\* cells the search returns None instead of raising, and it returns None
\* only then.
C3_NoPathIffUnreachable ==
  SearchOver =>
     /\ (ShortestSteps = -1) => pc = "no_path"
     /\ pc = "no_path" => (ShortestSteps = -1)

\* ------------------------------------------------------------------ C4
\* C4 (as claimed): on every constructed grid the search ends with the goal
\* popped or the frontier empty, and its result is a complete path or None.
C4_TotalNoPartialResult ==
  SearchOver =>
     \/ pc = "no_path" /\ frontier = {}
     \/ pc \in {"found", "marked"} /\ Len(path) >= 1
          /\ path[1] = start /\ path[Len(path)] = end

\* ------------------------------------------------------------------ C5
Occurrences(ch) == { p \in TextCells : TextAt(p) = ch }

RowMajorBefore(p, q) == p[1] < q[1] \/ (p[1] = q[1] /\ p[2] < q[2])

FirstOccurrence(ch) ==
  IF Occurrences(ch) = {} THEN None
  ELSE CHOOSE p \in Occurrences(ch) :
         \A q \in Occurrences(ch) \ {p} : RowMajorBefore(p, q)

LastOccurrence(ch) ==
  IF Occurrences(ch) = {} THEN None
  ELSE CHOOSE p \in Occurrences(ch) :
         \A q \in Occurrences(ch) \ {p} : RowMajorBefore(q, p)

\* C5 (as claimed): the recorded start (end) is the first begin-marker
\* (end-marker) in top-to-bottom, left-to-right order.
C5_FirstOccurrenceWins ==
  pc # "load" =>
     /\ start = FirstOccurrence(params.begin)
     /\ end = FirstOccurrence(params.end)

\* C5 (amended): the recorded start (end) is the last begin-marker
\* (end-marker) in top-to-bottom, left-to-right order.
C5_LastOccurrenceWins ==
  pc # "load" =>
     /\ start = LastOccurrence(params.begin)
     /\ end = LastOccurrence(params.end)

C5_Witness ==
  /\ Loaded
  /\ Cardinality(Occurrences(params.begin)) >= 2
  /\ Cardinality(Occurrences(params.end)) >= 2

\* ------------------------------------------------------------------ C6
\* C6 (as claimed): a Maze that load_maze constructs never makes
\* a_star_search raise in the middle of the search.
C6_NoFaultMidSearch == pc # "search_raised"

\* ------------------------------------------------------------------ C7
Interior(p) == { p[i] : i \in 1..Len(p) } \ {start, end}

Markers(g) ==
  { q \in TextCells : g[q[1] + 1][q[2] + 1] = PathMarker }

MarkFrame ==
  /\ grid[start[1] + 1][start[2] + 1] = TextAt(start)
  /\ grid[end[1] + 1][end[2] + 1] = TextAt(end)
  /\ \A q \in TextCells :
       grid[q[1] + 1][q[2] + 1] =
         IF q \in Interior(path) THEN PathMarker ELSE TextAt(q)

\* C7 (as claimed): mark_path keeps the start and end characters, writes the
\* marker on every other path cell, leaves all other cells alone, and the
\* grid then shows exactly len(path)-2 markers (0 for a path of <= 2 cells).
C7_MarkerCountIsInterior ==
  pc = "marked" =>
     /\ MarkFrame
     /\ Cardinality(Markers(grid)) =
          (IF Len(path) <= 2 THEN 0 ELSE Len(path) - 2)

\* C7 (amended): as claimed, except that the markers shown are the
\* len(path)-2 written ones plus the cells off the path's interior that
\* already held the marker character in the text.
C7_MarkerCountWithOld ==
  pc = "marked" =>
     /\ MarkFrame
     /\ Cardinality(Markers(grid)) =
          (IF Len(path) <= 2 THEN 0 ELSE Len(path) - 2)
          + Cardinality(Markers(text) \ Interior(path))

C7_Witness ==
  /\ pc = "marked" /\ Len(path) >= 3
  /\ Markers(text) \ Interior(path) # {}

\* ------------------------------------------------------------------ C8
\* C8 (as claimed): the scenario grid yields a 5-step path.
C8_ScenarioFiveSteps ==
  (text = ScenarioGrid /\ pc = "found") => Len(path) - 1 = 5

\* C8 (amended): the scenario grid yields the 4-step path (5 cells) down the
\* left side and along the bottom, fixed by the tie-break rule.
C8_ScenarioPath ==
  (text = ScenarioGrid /\ SearchOver) =>
     /\ pc \in {"found", "marked"}
     /\ Len(path) - 1 = 4
     /\ path = << <<1, 1>>, <<2, 1>>, <<3, 1>>, <<3, 2>>, <<3, 3>> >>

C8_Witness == text = ScenarioGrid /\ pc = "found"

\* ------------------------------------------------------------------ C9
\* C9: when start equals end, the search returns the one-cell path [start]
\* and relaxes no neighbour.
C9_StartIsEnd ==
  (start = end /\ pc \notin {"search", "loop"}) =>
     /\ pc \in {"found", "marked"}
     /\ path = <<start>>
     /\ Len(path) - 1 = 0
     /\ count = 0
     /\ DOMAIN g_score = {start}

C9_Witness == start = end /\ pc = "found"

\* ----------------------------------------------------------------- C10
SearchRunning == pc \in {"loop", "no_path", "found", "marked", "search_raised"}

ParentLinks ==
  /\ DOMAIN came_from = DOMAIN g_score
  /\ g_score[start] = 0
  /\ came_from[start] = None
  /\ \A c \in DOMAIN g_score \ {start} :
       LET parent == came_from[c] IN
         /\ parent \in DOMAIN g_score
         /\ g_score[parent] < g_score[c]
         /\ Adjacent(parent, c)
         /\ ~IndexError(parent) /\ TextAt(parent) # params.wall
  /\ \A c \in DOMAIN g_score :
       LET chain == Backtrack(came_from, c) IN
         NoRepeats(chain) /\ chain[Len(chain)] = start

GScoreNeverIncreases ==
  SearchRunning =>
    \A c \in DOMAIN g_score :
      c \in DOMAIN g_score' /\ g_score'[c] <= g_score[c]

\* C10: during the search a recorded g_score never increases, start has
\* g 0 and no parent, every other recorded cell's parent is an adjacent
\* passable recorded cell with a strictly smaller g, and so the came_from
\* chain of any recorded cell ends at start without repeating a cell.
C10_ParentChain ==
  [](SearchRunning => ParentLinks) /\ [][GScoreNeverIncreases]_vars

\* More pushes than cells discovered: some recorded g_score was lowered.
C10_Witness ==
  pc = "loop" /\ count >= Cardinality(DOMAIN g_score)

====
